---- MODULE Spec2Model ----
(***************************************************************************)
(* Evaluation and data-generation scripts of ChemGraph.                    *)
(*                                                                         *)
(*   SpecCompare : one pass of the evaluation loop body of evaluate_model  *)
(*                 (mock_eval.py 74-84) on one observed workflow and one   *)
(*                 query, drawn from bounded sets of tool-call sequences.  *)
(*   Spec        : evaluate_model (mock_eval.py 36-96) on a list of        *)
(*                 queries: the run loop, then the evaluation loop, then   *)
(*                 the accuracy.                                           *)
(*   SpecLLM     : the batch loops of the Exp3, Exp8 and Exp14             *)
(*                 run_llm_workflow.py scripts.                            *)
(*   SpecManual  : the batch loops of the Exp6 and Exp12                   *)
(*                 run_manual_workflow.py scripts.                         *)
(*   SpecExp12Main : Exp12 run_manual_workflow.main from its command line  *)
(*                 and the files on disk to the file it writes.            *)
(*   SpecFunctions : the workflow functions of Exp6 and Exp12 and the      *)
(*                 find_error.py script, each applied to a bounded input.  *)
(*   SpecPubchem : the sampling loop of get_random_molecule_names;         *)
(*                 SpecPubchemFair adds the fairness of the random draws.  *)
(*                                                                         *)
(* Python values are modelled as follows.  A dict is a TLA+ record or      *)
(* function; a JSON object whose key order matters to the reader (the      *)
(* arguments of a tool call) is a sequence of <<key, value>> pairs in      *)
(* insertion order.  A formatted string f"<prefix>{e}" is the record       *)
(* Str(prefix, e); a number is Num(v); None is None.                       *)
(***************************************************************************)
EXTENDS Integers, Sequences, FiniteSets, TLC

(***************************************************************************)
(* Bounds of the model.                                                    *)
(***************************************************************************)
MaxCalls == 2      \* longest tool-call sequence drawn in SpecCompare
MaxQueries == 2    \* longest list_of_queries drawn in Spec
MaxItems == 4      \* longest dataset drawn in SpecLLM and SpecManual
MaxCid == 2        \* largest CID of a cid_range drawn in SpecPubchem
MaxN == 2          \* largest n drawn in SpecPubchem
MaxSide == 2       \* most species on one side of a reaction in SpecFunctions

VARIABLES
    \* SpecCompare: one query of the evaluation loop
    cmp_workflow,        \* llm_tool_calls[idx]
    cmp_query,           \* list_of_queries[idx]
    cmp_accurate,        \* accurate_tool_call before / after the pass
    cmp_result,          \* eval_result, None before the pass
    cmp_pc,              \* "start" | "done"
    \* Spec: evaluate_model
    list_of_queries,     \* json.load(input_file)
    llm_tool_calls,      \* observed workflows, one per query run
    eval_idx,            \* idx of the evaluation loop (0-based)
    accurate_tool_call,  \* counter of line 71
    eval_details,        \* query -> eval_result
    accuracy,            \* None until computed, then [num, den]
    eval_pc,             \* "run" | "evaluate" | "done" | "raised"
    \* SpecLLM: Exp3 / Exp8 / Exp14 run_llm_workflow.main
    llm_script,          \* "Exp3" | "Exp8" | "Exp14"
    llm_items,           \* the keys of the items of dataset[:n], in order
    llm_idx,             \* idx of the batch loop (0-based)
    llm_state,           \* the local variable `state`
    llm_combined,        \* combined_data
    llm_file,            \* the JSON file written, NoFile until then
    llm_pc,              \* "loop" | "raised" | "written"
    llm_failed,          \* indices whose cca.run raised (history)
    \* SpecManual: Exp6 / Exp12 run_manual_workflow.main
    man_script,          \* "Exp6" | "Exp12"
    man_args,            \* the parsed command line
    man_files,           \* path -> content, for the JSON files on disk
    man_dataset,         \* dataset[:n]
    man_git,             \* outcome of `git rev-parse HEAD` on this machine
    man_idx,             \* idx of the batch loop (0-based)
    man_combined,        \* combined_data
    man_file,            \* the JSON file written, NoFile until then
    man_pc,              \* "start" | "loop" | "raised" | "written"
    \* SpecFunctions: one function applied to one input
    fn_name,             \* the function applied
    fn_input,            \* its argument
    fn_output,           \* what it returned or printed, None before the call
    fn_pc,               \* "start" | "done"
    \* SpecPubchem: get_random_molecule_names
    pub_n,               \* the parameter n
    pub_db,              \* cid -> what PubChem and the tools do for it
    pub_output,          \* output
    pub_tried,           \* tried
    pub_count,           \* count
    pub_lookups,         \* the cids looked up so far, in order (history)
    pub_pc               \* "loop" | "returned"

cmpVars == <<cmp_workflow, cmp_query, cmp_accurate, cmp_result, cmp_pc>>
evalVars == <<list_of_queries, llm_tool_calls, eval_idx, accurate_tool_call,
              eval_details, accuracy, eval_pc>>
llmVars == <<llm_script, llm_items, llm_idx, llm_state, llm_combined,
             llm_file, llm_pc, llm_failed>>
manVars == <<man_script, man_args, man_files, man_dataset, man_git, man_idx,
             man_combined, man_file, man_pc>>
fnVars == <<fn_name, fn_input, fn_output, fn_pc>>
pubVars == <<pub_n, pub_db, pub_output, pub_tried, pub_count, pub_lookups,
             pub_pc>>
vars == <<cmpVars, evalVars, llmVars, manVars, fnVars, pubVars>>

(***************************************************************************)
(* Python values.                                                          *)
(***************************************************************************)
None == [type |-> "None"]
Num(v) == [type |-> "number", value |-> v]
Str(prefix, message) == [type |-> "str", prefix |-> prefix, message |-> message]
NoFile == [type |-> "no file"]
EmptyDict == [k \in {} |-> None]

\* d[key] = value on a dict d
DictSet(d, key, value) ==
    [k \in (DOMAIN d) \cup {key} |-> IF k = key THEN value ELSE d[k]]

\* every sequence over S of length 0..n
SeqsUpTo(S, n) == UNION {[1..k -> S] : k \in 0..n}

(***************************************************************************)
(* Tool calls.  {"molecule_name_to_smiles": {"name": "water"}} is          *)
(* Call("molecule_name_to_smiles", << <<"name", "water">> >>).             *)
(***************************************************************************)
Call(name, arguments) == [kind |-> "call", name |-> name, arguments |-> arguments]
\* an observed entry that is not a {name: {arguments}} object
MalformedCall == [kind |-> "malformed", name |-> "", arguments |-> <<>>]

\* the mapping an arguments object denotes, whatever the order of its keys
ArgsAsMapping(arguments) ==
    [k \in {arguments[i][1] : i \in DOMAIN arguments} |->
        LET i == CHOOSE j \in DOMAIN arguments : arguments[j][1] = k
        IN  arguments[i][2]]

\* a comparison of the arguments as written, key order included
DeepEqualOrdered(a, b) == a = b

\* deep structural comparison of two arguments objects
DeepEqual(a, b) == ArgsAsMapping(a) = ArgsAsMapping(b)

\* position i of the comparison: observed[i] against expected[i]
PositionAccurate(model_outputs, answers, i) ==
    /\ i <= Len(model_outputs)
    /\ model_outputs[i].kind = "call"
    /\ model_outputs[i].name = answers[i].name
    /\ DeepEqual(model_outputs[i].arguments, answers[i].arguments)

RECURSIVE CountAccurate(_, _, _)
CountAccurate(model_outputs, answers, i) ==
    IF i > Len(answers) THEN 0
    ELSE (IF PositionAccurate(model_outputs, answers, i) THEN 1 ELSE 0)
         + CountAccurate(model_outputs, answers, i + 1)

\* chemgraph.utils.tool_call_eval.multi_function_checker_with_order
multi_function_checker_with_order(model_outputs, answers) ==
    [n_toolcalls |-> Len(answers),
     acc_n_toolcalls |-> CountAccurate(model_outputs, answers, 1),
     details |-> [i \in 1..Len(answers) |->
                     PositionAccurate(model_outputs, answers, i)]]

(***************************************************************************)
(* evaluate_model: the body of the evaluation loop, mock_eval.py 74-84.    *)
(***************************************************************************)
\* the lookup with a misspelt key: .get("tool_call", {})
ModelOutputsTypo(workflow) ==
    IF "tool_call" \in DOMAIN workflow THEN workflow.tool_call ELSE <<>>

\* llm_tool_calls[idx].get("tool_calls", {})
ModelOutputs(workflow) ==
    IF "tool_calls" \in DOMAIN workflow THEN workflow.tool_calls ELSE <<>>

\* list_of_queries[idx].get("answer", {}).get("tool_calls", {})
Answers(item) ==
    IF "answer" \in DOMAIN item /\ "tool_calls" \in DOMAIN item.answer
    THEN item.answer.tool_calls
    ELSE <<>>

\* the test written with <= for ==
IsAccurateQueryAtMost(eval_result) ==
    eval_result.acc_n_toolcalls <= eval_result.n_toolcalls

\* the test guarded against an empty expected sequence
IsAccurateQueryNonEmpty(eval_result) ==
    /\ eval_result.n_toolcalls > 0
    /\ eval_result.acc_n_toolcalls = eval_result.n_toolcalls

\* the test of line 81
IsAccurateQuery(eval_result) ==
    eval_result.acc_n_toolcalls = eval_result.n_toolcalls

\* lines 74-82: the comparison of one query and the counter after it
EvalQuery(workflow, item, accurate) ==
    LET eval_result ==
            multi_function_checker_with_order(ModelOutputs(workflow), Answers(item))
    IN  [eval_result |-> eval_result,
         accurate_tool_call |->
             IF IsAccurateQuery(eval_result) THEN accurate + 1 ELSE accurate]

(***************************************************************************)
(* The tool calls the comparison is exercised on.                          *)
(***************************************************************************)
NameToSmiles(name) == Call("molecule_name_to_smiles", << <<"name", name>> >>)
SmilesToAtoms(smiles) == Call("smiles_to_atomsdata", << <<"smiles", smiles>> >>)

SaveFile(arguments) == Call("save_atomsdata_to_file", arguments)

\* well-formed calls: three tools, a differing value, a missing key, and the
\* same two-key arguments written in both key orders
WellFormedCalls ==
    { NameToSmiles("water"),
      NameToSmiles("O"),
      SmilesToAtoms("O"),
      SaveFile(<< <<"fname", "water.xyz">> >>),
      SaveFile(<< <<"atomsdata", "H2O">>, <<"fname", "water.xyz">> >>),
      SaveFile(<< <<"fname", "water.xyz">>, <<"atomsdata", "H2O">> >>) }

ObservedCalls == WellFormedCalls \cup {MalformedCall}

\* a workflow as get_workflow_from_state returns it
Workflow(tool_calls) == [tool_calls |-> tool_calls, result |-> None]
\* an entry of ground_truth_sample.json
Query(text, tool_calls) ==
    [query |-> text, answer |-> [tool_calls |-> tool_calls, result |-> None]]

(***************************************************************************)
(* SpecCompare: one pass of the loop body on a bounded observed/expected   *)
(* pair.                                                                   *)
(***************************************************************************)
otherThanCmp == <<evalVars, llmVars, manVars, fnVars, pubVars>>

IdleEval ==
    /\ list_of_queries = <<>>
    /\ llm_tool_calls = <<>>
    /\ eval_idx = 0
    /\ accurate_tool_call = 0
    /\ eval_details = EmptyDict
    /\ accuracy = None
    /\ eval_pc = "idle"

IdleCmp ==
    /\ cmp_workflow = Workflow(<<>>)
    /\ cmp_query = Query("q", <<>>)
    /\ cmp_accurate = 0
    /\ cmp_result = None
    /\ cmp_pc = "idle"

IdleLLM ==
    /\ llm_script = "none"
    /\ llm_items = <<>>
    /\ llm_idx = 0
    /\ llm_state = None
    /\ llm_combined = EmptyDict
    /\ llm_file = NoFile
    /\ llm_pc = "idle"
    /\ llm_failed = {}

IdleFunctions ==
    /\ fn_name = "none"
    /\ fn_input = None
    /\ fn_output = None
    /\ fn_pc = "idle"

IdlePubchem ==
    /\ pub_n = 0
    /\ pub_db = EmptyDict
    /\ pub_output = <<>>
    /\ pub_tried = {}
    /\ pub_count = 0
    /\ pub_lookups = <<>>
    /\ pub_pc = "idle"

IdleManual ==
    /\ man_script = "none"
    /\ man_args = None
    /\ man_files = EmptyDict
    /\ man_dataset = <<>>
    /\ man_git = "ok"
    /\ man_idx = 0
    /\ man_combined = EmptyDict
    /\ man_file = NoFile
    /\ man_pc = "idle"

InitCompare ==
    /\ cmp_workflow \in {Workflow(s) : s \in SeqsUpTo(ObservedCalls, MaxCalls)}
    /\ cmp_query \in {Query("q", s) : s \in SeqsUpTo(WellFormedCalls, MaxCalls)}
    /\ cmp_accurate = 0
    /\ cmp_result = None
    /\ cmp_pc = "start"
    /\ IdleEval /\ IdleLLM /\ IdleManual /\ IdleFunctions /\ IdlePubchem

Compare ==
    /\ cmp_pc = "start"
    /\ LET r == EvalQuery(cmp_workflow, cmp_query, cmp_accurate)
       IN  /\ cmp_result' = r.eval_result
           /\ cmp_accurate' = r.accurate_tool_call
    /\ cmp_pc' = "done"
    /\ UNCHANGED <<cmp_workflow, cmp_query, otherThanCmp>>

NextCompare == Compare

SpecCompare == InitCompare /\ [][NextCompare]_vars

(***************************************************************************)
(* Spec: evaluate_model, mock_eval.py 36-96.                               *)
(***************************************************************************)
otherThanEval == <<cmpVars, llmVars, manVars, fnVars, pubVars>>

QueryTexts == {"q1", "q2"}

\* the expected sequences of the ground-truth file
EvalAnswers ==
    { <<>>,
      <<NameToSmiles("water"), SmilesToAtoms("O")>> }

\* the sequences the mock agent may produce
EvalOutputs ==
    { <<>>,
      <<NameToSmiles("water")>>,
      <<NameToSmiles("water"), SmilesToAtoms("O")>>,
      <<SmilesToAtoms("O"), NameToSmiles("water")>>,
      <<NameToSmiles("water"), MalformedCall>> }

\* lines 36-47
Init ==
    /\ list_of_queries \in
          SeqsUpTo({Query(t, a) : t \in QueryTexts, a \in EvalAnswers}, MaxQueries)
    /\ llm_tool_calls = <<>>
    /\ eval_idx = 0
    /\ accurate_tool_call = 0
    /\ eval_details = EmptyDict
    /\ accuracy = None
    /\ eval_pc = "run"
    /\ IdleCmp /\ IdleLLM /\ IdleManual /\ IdleFunctions /\ IdlePubchem

\* lines 48-52: one iteration of the run loop
RunQuery ==
    /\ eval_pc = "run"
    /\ Len(llm_tool_calls) < Len(list_of_queries)
    /\ \/ /\ \E tool_calls \in EvalOutputs :
                llm_tool_calls' = Append(llm_tool_calls, Workflow(tool_calls))
          /\ UNCHANGED eval_pc
       \/ \* cca.run raises: nothing catches it
          /\ eval_pc' = "raised"
          /\ UNCHANGED llm_tool_calls
    /\ UNCHANGED <<list_of_queries, eval_idx, accurate_tool_call, eval_details,
                   accuracy, otherThanEval>>

\* lines 54-72: the tool calls are saved and the evaluation starts
SaveToolCalls ==
    /\ eval_pc = "run"
    /\ Len(llm_tool_calls) = Len(list_of_queries)
    /\ eval_pc' = "evaluate"
    /\ eval_idx' = 0
    /\ accurate_tool_call' = 0
    /\ eval_details' = EmptyDict
    /\ UNCHANGED <<list_of_queries, llm_tool_calls, accuracy, otherThanEval>>

\* an evaluation loop that stops at the first query that is not accurate
EvalIterationBreak ==
    /\ eval_pc = "evaluate"
    /\ eval_idx < Len(llm_tool_calls)
    /\ LET r == EvalQuery(llm_tool_calls[eval_idx + 1],
                          list_of_queries[eval_idx + 1], accurate_tool_call)
       IN  /\ accurate_tool_call' = r.accurate_tool_call
           /\ eval_details' =
                 DictSet(eval_details, list_of_queries[eval_idx + 1].query,
                         r.eval_result)
           /\ eval_idx' = IF IsAccurateQuery(r.eval_result)
                          THEN eval_idx + 1 ELSE Len(llm_tool_calls)
    /\ UNCHANGED <<list_of_queries, llm_tool_calls, accuracy, eval_pc,
                   otherThanEval>>

\* lines 73-84: one iteration of the evaluation loop
EvalIteration ==
    /\ eval_pc = "evaluate"
    /\ eval_idx < Len(llm_tool_calls)
    /\ LET r == EvalQuery(llm_tool_calls[eval_idx + 1],
                          list_of_queries[eval_idx + 1], accurate_tool_call)
       IN  /\ accurate_tool_call' = r.accurate_tool_call
           /\ eval_details' =
                 DictSet(eval_details, list_of_queries[eval_idx + 1].query,
                         r.eval_result)
    /\ eval_idx' = eval_idx + 1
    /\ UNCHANGED <<list_of_queries, llm_tool_calls, accuracy, eval_pc,
                   otherThanEval>>

\* lines 85-96: accurate_tool_call / len(llm_tool_calls) * 100, kept as the
\* fraction num/den; the division raises ZeroDivisionError on an empty list
ComputeAccuracy ==
    /\ eval_pc = "evaluate"
    /\ eval_idx = Len(llm_tool_calls)
    /\ IF Len(llm_tool_calls) = 0
       THEN /\ eval_pc' = "raised"
            /\ UNCHANGED accuracy
       ELSE /\ eval_pc' = "done"
            /\ accuracy' = [num |-> accurate_tool_call * 100,
                            den |-> Len(llm_tool_calls)]
    /\ UNCHANGED <<list_of_queries, llm_tool_calls, eval_idx,
                   accurate_tool_call, eval_details, otherThanEval>>

Next ==
    \/ RunQuery
    \/ SaveToolCalls
    \/ EvalIteration
    \/ ComputeAccuracy

Spec == Init /\ [][Next]_vars

(***************************************************************************)
(* SpecLLM: the batch loops of Exp3, Exp8 and Exp14 run_llm_workflow.py.   *)
(* llm_items holds, for each item of dataset[:n], the key its entry is     *)
(* stored under: molecule["name"] in Exp3, molecule["smiles"] in Exp8 and  *)
(* reaction["reaction_name"] in Exp14.  Two items may have the same key.   *)
(***************************************************************************)
otherThanLLM == <<cmpVars, evalVars, manVars, fnVars, pubVars>>

\* `state` before its first assignment
Unbound == [type |-> "unbound"]

\* the state cca.run returns for the query of item idx
AgentState(idx) == [type |-> "state", thread_id |-> idx]

\* chemgraph.utils.get_workflow_from_llm.get_workflow_from_state: the
\* workflow is read off the messages of the state it is given
get_workflow_from_state(state) ==
    [tool_calls |-> <<>>, result |-> None, thread_id |-> state.thread_id]

\* cca.write_state(config={"configurable": {"thread_id": idx}})
write_state(idx) == [type |-> "state_data", thread_id |-> idx]

\* the keys the items of a dataset are drawn from
ItemKeys == {"a", "b"}

InitLLM ==
    /\ llm_script \in {"Exp3", "Exp8", "Exp14"}
    /\ llm_items \in SeqsUpTo(ItemKeys, MaxItems)
    /\ llm_idx = 0
    /\ llm_state = Unbound
    /\ llm_combined = EmptyDict
    /\ llm_file = NoFile
    /\ llm_pc = "loop"
    /\ llm_failed = {}
    /\ IdleCmp /\ IdleEval /\ IdleManual /\ IdleFunctions /\ IdlePubchem

\* combined_data[name] = {"llm_workflow": ...}; combined_data[name]["metadata"] = ...
StoreLLMEntry(combined, key, state, idx) ==
    DictSet(combined, key,
            [llm_workflow |-> get_workflow_from_state(state),
             metadata |-> write_state(idx)])

\* Exp3 lines 58-81: the whole iteration is inside try/except
Exp3Iteration ==
    /\ llm_script = "Exp3"
    /\ llm_pc = "loop"
    /\ llm_idx < Len(llm_items)
    /\ \/ \* cca.run returns
          /\ llm_state' = AgentState(llm_idx)
          /\ llm_combined' =
                StoreLLMEntry(llm_combined, llm_items[llm_idx + 1],
                              AgentState(llm_idx), llm_idx)
          /\ UNCHANGED llm_failed
       \/ \* cca.run raises e: lines 78-81
          /\ llm_combined' =
                DictSet(llm_combined, llm_items[llm_idx + 1],
                        [llm_workflow |->
                            [result |-> Str("Error with running LLM: ", "e"),
                             tool_calls |-> <<>>]])
          /\ llm_failed' = llm_failed \cup {llm_idx}
          /\ UNCHANGED llm_state
    /\ llm_idx' = llm_idx + 1
    /\ UNCHANGED <<llm_script, llm_items, llm_file, llm_pc, otherThanLLM>>

\* Exp8 lines 58-76: nothing catches an exception of cca.run
Exp8Iteration ==
    /\ llm_script = "Exp8"
    /\ llm_pc = "loop"
    /\ llm_idx < Len(llm_items)
    /\ \/ \* cca.run returns
          /\ llm_state' = AgentState(llm_idx)
          /\ llm_combined' =
                StoreLLMEntry(llm_combined, llm_items[llm_idx + 1],
                              AgentState(llm_idx), llm_idx)
          /\ llm_idx' = llm_idx + 1
          /\ UNCHANGED <<llm_failed, llm_pc>>
       \/ \* cca.run raises: the exception leaves main
          /\ llm_failed' = llm_failed \cup {llm_idx}
          /\ llm_pc' = "raised"
          /\ UNCHANGED <<llm_state, llm_combined, llm_idx>>
    /\ UNCHANGED <<llm_script, llm_items, llm_file, otherThanLLM>>

\* Exp14 lines 50-74: only cca.run is inside try/except; line 68 reads
\* `state` whatever happened
Exp14Iteration ==
    /\ llm_script = "Exp14"
    /\ llm_pc = "loop"
    /\ llm_idx < Len(llm_items)
    /\ \E raises \in BOOLEAN :
          LET state == IF raises THEN llm_state ELSE AgentState(llm_idx)
          IN  /\ llm_failed' = IF raises THEN llm_failed \cup {llm_idx}
                               ELSE llm_failed
              /\ llm_state' = state
              /\ IF state = Unbound
                 THEN \* UnboundLocalError at line 68 leaves main
                      /\ llm_pc' = "raised"
                      /\ UNCHANGED <<llm_combined, llm_idx>>
                 ELSE /\ llm_combined' =
                            StoreLLMEntry(llm_combined, llm_items[llm_idx + 1],
                                          state, llm_idx)
                      /\ llm_idx' = llm_idx + 1
                      /\ UNCHANGED llm_pc
    /\ UNCHANGED <<llm_script, llm_items, llm_file, otherThanLLM>>

\* Exp3 83-88, Exp8 78-84, Exp14 76-82: json.dump(combined_data, f)
WriteLLMOutput ==
    /\ llm_pc = "loop"
    /\ llm_idx = Len(llm_items)
    /\ llm_file' = llm_combined
    /\ llm_pc' = "written"
    /\ UNCHANGED <<llm_script, llm_items, llm_idx, llm_state, llm_combined,
                   llm_failed, otherThanLLM>>

NextLLM ==
    \/ Exp3Iteration
    \/ Exp8Iteration
    \/ Exp14Iteration
    \/ WriteLLMOutput

SpecLLM == InitLLM /\ [][NextLLM]_vars

(***************************************************************************)
(* The chemistry tools, as the manual workflows see them: invoke(args)     *)
(* returns a value or raises.  Which tool raises is a property of the      *)
(* molecule the dataset names.                                             *)
(***************************************************************************)
MoleculeNames ==
    {"water", "hydrogen", "oxygen", "unknown", "badsmiles", "unstable",
     "unsavable"}

\* the first tool that raises on the molecule, "none" when none does
FailingTool(name) ==
    CASE name = "unknown" -> "molecule_name_to_smiles"
      [] name = "badsmiles" -> "smiles_to_atomsdata"
      [] name = "unstable" -> "run_ase"
      [] name = "unsavable" -> "save_atomsdata_to_file"
      [] OTHER -> "none"

\* the message of the exception the tool raises on the molecule
ToolError(tool, name) == <<tool, name>>

\* molecule_name_to_smiles.invoke({"name": name})
SmilesOf(name) ==
    CASE name = "water" -> "O"
      [] name = "hydrogen" -> "[HH]"
      [] name = "oxygen" -> "O=O"
      [] OTHER -> name

\* smiles_to_atomsdata.invoke({"smiles": smiles}).model_dump()
AtomsDataOf(smiles) == [smiles |-> smiles]

\* run_ase(...).thermochemistry["enthalpy"], in units of the model
EnthalpyOf(name) ==
    CASE name = "water" -> -3
      [] name = "hydrogen" -> 1
      [] name = "oxygen" -> 2
      [] OTHER -> 0

RunAseCall(name, driver, calculator, temperature) ==
    Call("run_ase",
         << <<"params",
              [atomsdata |-> AtomsDataOf(SmilesOf(name)), driver |-> driver,
               calculator |-> calculator, temperature |-> temperature]>> >>)

(***************************************************************************)
(* Exp12 run_manual_workflow.get_manual_workflow_result, lines 10-73.      *)
(***************************************************************************)
ThermoTools == {"molecule_name_to_smiles", "smiles_to_atomsdata", "run_ase"}

\* line 57, without the sign
SpeciesTermUnsigned(sign, value, coeff) == value * coeff

\* line 57: the term one species adds to the total
SpeciesTerm(sign, value, coeff) == sign * value * coeff

\* the entries of a species as soon as each of its tools has returned
FailedSpeciesLogEager(name, tool) ==
    IF tool = "molecule_name_to_smiles" THEN <<>>
    ELSE IF tool = "smiles_to_atomsdata" THEN <<NameToSmiles(name)>>
    ELSE <<NameToSmiles(name), SmilesToAtoms(SmilesOf(name))>>

\* the entries logged for a species one of whose tools raised: none, the
\* extend of lines 51-55 comes after the three invocations
FailedSpeciesLog(name, tool) == <<>>

\* process_species, lines 32-58, from species k on: the log so far and the
\* total so far go in; an exception leaves with the log as it stands
RECURSIVE process_species(_, _, _, _, _, _, _)
process_species(species_list, sign, k, total, tool_calls, calculator, temperature) ==
    IF k > Len(species_list)
    THEN [raised |-> FALSE, total |-> total, tool_calls |-> tool_calls]
    ELSE LET name == species_list[k].name
             coeff == species_list[k].coefficient
         IN  IF FailingTool(name) \in ThermoTools
             THEN [raised |-> TRUE, total |-> total,
                   tool_calls |->
                       tool_calls \o FailedSpeciesLog(name, FailingTool(name)),
                   error |-> ToolError(FailingTool(name), name)]
             ELSE process_species(
                      species_list, sign, k + 1,
                      total + SpeciesTerm(sign, EnthalpyOf(name), coeff),
                      tool_calls \o
                          << NameToSmiles(name),
                             SmilesToAtoms(SmilesOf(name)),
                             RunAseCall(name, "thermo", calculator, temperature) >>,
                      calculator, temperature)

get_manual_workflow_result(reaction, prop, temperature, calculator) ==
    LET reactants == process_species(reaction.reactants, -1, 1, 0, <<>>,
                                     calculator, temperature)
        products == process_species(reaction.products, 1, 1, 0,
                                    reactants.tool_calls, calculator, temperature)
        Result(value) == [value |-> value, property |-> prop, unit |-> "eV"]
    IN  IF reactants.raised
        THEN [tool_calls |-> reactants.tool_calls,
              result |-> Result(Str("ERROR - ", reactants.error))]
        ELSE IF products.raised
        THEN [tool_calls |-> products.tool_calls,
              result |-> Result(Str("ERROR - ", products.error))]
        ELSE [tool_calls |-> products.tool_calls,
              result |-> Result(Num(0 + reactants.total + products.total))]

(***************************************************************************)
(* Exp6 run_manual_workflow.get_saved_file_from_molecule_name, 189-234.    *)
(***************************************************************************)
\* the return value, or the exception that leaves the function
get_saved_file_from_molecule_name(name, calculator) ==
    LET tool == FailingTool(name)
        filepath == <<"manual_files", name, ".xyz">>
        opt_atomsdata == [optimized |-> AtomsDataOf(SmilesOf(name))]
    IN  IF tool \in {"molecule_name_to_smiles", "smiles_to_atomsdata"}
        THEN \* lines 206-207 are outside the try
             [raised |-> TRUE, error |-> ToolError(tool, name)]
        ELSE IF tool \in {"run_ase", "save_atomsdata_to_file"}
        THEN [raised |-> FALSE,
              value |-> Str("Error message: ", ToolError(tool, name))]
        ELSE [raised |-> FALSE,
              value |->
                  [tool_calls |->
                      << NameToSmiles(name),
                         SmilesToAtoms(SmilesOf(name)),
                         Call("run_ase",
                              << <<"params",
                                   [atomsdata |-> AtomsDataOf(SmilesOf(name)),
                                    driver |-> "opt",
                                    calculator |-> calculator]>> >>),
                         SaveFile(<< <<"atomsdata", opt_atomsdata>>,
                                     <<"fname", filepath>> >>) >>,
                   result |-> <<"saved", filepath>>]]

(***************************************************************************)
(* SpecManual: the batch loops of Exp6 and Exp12 run_manual_workflow.py.   *)
(***************************************************************************)
otherThanManual == <<cmpVars, evalVars, llmVars, fnVars, pubVars>>

Species(name, coefficient) == [name |-> name, coefficient |-> coefficient]
Reaction(reaction_name, reactants, products) ==
    [reaction_name |-> reaction_name, reactants |-> reactants,
     products |-> products]

\* the reactions a reaction_dataset.json is drawn from
ReactionPool ==
    { Reaction("formation",
               <<Species("hydrogen", 2), Species("oxygen", 1)>>,
               <<Species("water", 2)>>),
      Reaction("unknown reactant",
               <<Species("unknown", 1)>>, <<Species("water", 1)>>),
      Reaction("bad product",
               <<Species("hydrogen", 1)>>, <<Species("badsmiles", 1)>>),
      Reaction("unstable product",
               <<Species("hydrogen", 2), Species("oxygen", 1)>>,
               <<Species("unstable", 2)>>) }

\* the molecules a data_from_pubchempy.json is drawn from
MoleculePool ==
    { [name |-> n, smiles |-> SmilesOf(n)] :
        n \in {"water", "unknown", "badsmiles", "unstable", "unsavable"} }

\* what `git rev-parse HEAD` does on the machine
GitOutcomes == {"ok", "nonzero exit", "not runnable"}

\* the path main reads its dataset from: Exp6 line 247 opens fname, Exp12
\* line 98 opens the literal "reaction_dataset.json"
InputPath(script, args) ==
    IF script = "Exp6" THEN args.fname ELSE "reaction_dataset.json"

\* the path main writes to: Exp6 line 280 opens the literal
\* "manual_workflow.json", Exp12 line 123 opens args.output_fp
OutputPath(script, args) ==
    IF script = "Exp6" THEN "manual_workflow.json" ELSE args.output_fp

\* the number of items asked for: n_structures or --n_reactions
ItemsAsked(script, args) ==
    IF script = "Exp6" THEN args.n_structures ELSE args.n_reactions

\* dataset[:n]: the first n items, all of them when n exceeds the length,
\* and all but the last -n when n is negative
Take(dataset, n) ==
    LET stop == IF n < 0
                THEN (IF Len(dataset) + n > 0 THEN Len(dataset) + n ELSE 0)
                ELSE (IF n < Len(dataset) THEN n ELSE Len(dataset))
    IN  SubSeq(dataset, 1, stop)

\* the state of main once the dataset is loaded and sliced
InitManual ==
    /\ man_script \in {"Exp6", "Exp12"}
    /\ man_dataset \in
          IF man_script = "Exp6" THEN SeqsUpTo(MoleculePool, MaxItems)
          ELSE SeqsUpTo(ReactionPool, MaxItems)
    /\ man_args =
          IF man_script = "Exp6"
          THEN [fname |-> "data_from_pubchempy.json",
                n_structures |-> Len(man_dataset)]
          ELSE [reaction_fp |-> "reaction_dataset.json",
                n_reactions |-> Len(man_dataset),
                output_fp |-> "manual_workflow.json"]
    /\ man_files = DictSet(EmptyDict, InputPath(man_script, man_args), man_dataset)
    /\ man_git \in GitOutcomes
    /\ man_idx = 0
    /\ man_combined = EmptyDict
    /\ man_file = NoFile
    /\ man_pc = "loop"
    /\ IdleCmp /\ IdleEval /\ IdleLLM /\ IdleFunctions /\ IdlePubchem

\* Exp6 268-278, Exp12 110-120: the entry is stored, then the metadata are
\* collected; only CalledProcessError is caught, so a git that cannot be
\* run raises FileNotFoundError out of main
StoreManualEntry(key, manual_workflow) ==
    LET stored == DictSet(man_combined, key, [manual_workflow |-> manual_workflow])
        git_commit == IF man_git = "ok" THEN "commit" ELSE "unknown"
    IN  IF man_git = "not runnable"
        THEN /\ man_combined' = stored
             /\ man_pc' = "raised"
             /\ UNCHANGED man_idx
        ELSE /\ man_combined' =
                   DictSet(man_combined, key,
                           [manual_workflow |-> manual_workflow,
                            metadata |-> [timestamp |-> "now",
                                          git_commit |-> git_commit]])
             /\ man_idx' = man_idx + 1
             /\ UNCHANGED man_pc

\* Exp6 lines 253-278
Exp6Iteration ==
    /\ man_script = "Exp6"
    /\ man_pc = "loop"
    /\ man_idx < Len(man_dataset)
    /\ LET name == man_dataset[man_idx + 1].name
           r == get_saved_file_from_molecule_name(
                    name, [calculator_type |-> "mace_mp"])
       IN  IF r.raised
           THEN \* lines 261-263: print and continue
                /\ man_idx' = man_idx + 1
                /\ UNCHANGED <<man_combined, man_pc>>
           ELSE StoreManualEntry(name, r.value)
    /\ UNCHANGED <<man_script, man_args, man_files, man_dataset, man_git,
                   man_file, otherThanManual>>

\* Exp12 lines 101-120
Exp12Iteration ==
    /\ man_script = "Exp12"
    /\ man_pc = "loop"
    /\ man_idx < Len(man_dataset)
    /\ LET reaction == man_dataset[man_idx + 1]
       IN  StoreManualEntry(
               reaction.reaction_name,
               get_manual_workflow_result(
                   reaction, "enthalpy", 400,
                   [calculator_type |-> "TBLite", method |-> "GFN2-xTB"]))
    /\ UNCHANGED <<man_script, man_args, man_files, man_dataset, man_git,
                   man_file, otherThanManual>>

\* Exp6 280-281, Exp12 123-124: json.dump(combined_data, f)
WriteManualOutput ==
    /\ man_pc = "loop"
    /\ man_idx = Len(man_dataset)
    /\ man_file' = man_combined
    /\ man_files' = DictSet(man_files, OutputPath(man_script, man_args), man_combined)
    /\ man_pc' = "written"
    /\ UNCHANGED <<man_script, man_args, man_dataset, man_git, man_idx,
                   man_combined, otherThanManual>>

NextManual ==
    \/ Exp6Iteration
    \/ Exp12Iteration
    \/ WriteManualOutput

SpecManual == InitManual /\ [][NextManual]_vars

(***************************************************************************)
(* SpecExp12Main: Exp12 run_manual_workflow.main, lines 76-124, from the   *)
(* command line and the files on disk.                                     *)
(***************************************************************************)
\* the paths a dataset may be at, and the paths --output_fp may name
DatasetPaths == {"reaction_dataset.json", "reactions_dataset.json"}
OutputPaths == {"manual_workflow.json", "results.json"}

\* the datasets a file may hold
FormationReaction ==
    Reaction("formation",
             <<Species("hydrogen", 2), Species("oxygen", 1)>>,
             <<Species("water", 2)>>)
BadProductReaction ==
    Reaction("bad product",
             <<Species("hydrogen", 1)>>, <<Species("badsmiles", 1)>>)
DatasetContents ==
    { <<FormationReaction>>,
      <<BadProductReaction, FormationReaction>>,
      <<FormationReaction, BadProductReaction, FormationReaction>> }

\* lines 77-95: parse_args; --reaction_fp defaults to
\* "reactions_dataset.json", --output_fp to "manual_workflow.json";
\* --n_reactions is any int, negative ones included
InitExp12Main ==
    /\ man_script = "Exp12"
    /\ man_args \in [reaction_fp : DatasetPaths,
                      n_reactions : (-MaxItems)..MaxItems,
                      output_fp : OutputPaths]
    /\ man_files \in UNION {[P -> DatasetContents] : P \in SUBSET DatasetPaths}
    /\ man_dataset = <<>>
    /\ man_git \in GitOutcomes
    /\ man_idx = 0
    /\ man_combined = EmptyDict
    /\ man_file = NoFile
    /\ man_pc = "start"
    /\ IdleCmp /\ IdleEval /\ IdleLLM /\ IdleFunctions /\ IdlePubchem

\* lines 97-101: open, json.load and reactions[: args.n_reactions]; a path
\* that names no file raises FileNotFoundError out of main
Exp12Load ==
    /\ man_script = "Exp12"
    /\ man_pc = "start"
    /\ LET path == InputPath(man_script, man_args)
       IN  IF path \notin DOMAIN man_files
           THEN /\ man_pc' = "raised"
                /\ UNCHANGED man_dataset
           ELSE /\ man_dataset' =
                      Take(man_files[path], ItemsAsked(man_script, man_args))
                /\ man_pc' = "loop"
    /\ UNCHANGED <<man_script, man_args, man_files, man_git, man_idx,
                   man_combined, man_file, otherThanManual>>

NextExp12Main ==
    \/ Exp12Load
    \/ Exp12Iteration
    \/ WriteManualOutput

SpecExp12Main == InitExp12Main /\ [][NextExp12Main]_vars

(***************************************************************************)
(* Properties of the comparison and of evaluate_model.                     *)
(***************************************************************************)
\* two calls are the same call: same name, same arguments as Python dicts
KeysOf(arguments) == {arguments[j][1] : j \in DOMAIN arguments}
SameArguments(a, b) ==
    /\ KeysOf(a) = KeysOf(b)
    /\ \A j \in DOMAIN a, l \in DOMAIN b : a[j][1] = b[l][1] => a[j][2] = b[l][2]
SameCall(c, d) ==
    /\ c.kind = "call" /\ d.kind = "call"
    /\ c.name = d.name
    /\ SameArguments(c.arguments, d.arguments)

\* the sequences as the files hold them
CmpObserved == cmp_workflow.tool_calls
CmpExpected == cmp_query.answer.tool_calls

ExampleSequence == <<NameToSmiles("water"), SmilesToAtoms("O")>>

\* C1: when the observed sequence is identical to the expected one (same
\* names, same arguments, same order), the comparison returns
\* acc_n_toolcalls = n_toolcalls and the query is counted as accurate; the
\* water example gives 2/2.
C1_IdenticalIsAccurate ==
    (/\ cmp_pc = "done"
     /\ Len(CmpObserved) = Len(CmpExpected)
     /\ \A i \in 1..Len(CmpExpected) : SameCall(CmpObserved[i], CmpExpected[i]))
    => /\ cmp_result.acc_n_toolcalls = cmp_result.n_toolcalls
       /\ cmp_accurate = 1
       /\ CmpExpected = ExampleSequence =>
             cmp_result.n_toolcalls = 2 /\ cmp_result.acc_n_toolcalls = 2

C1_Witness ==
    /\ cmp_pc = "done"
    /\ CmpExpected = ExampleSequence
    /\ CmpObserved = ExampleSequence
    /\ cmp_result.acc_n_toolcalls = 2
    /\ cmp_accurate = 1

\* observed holds the calls of expected in another order
IsReordering(observed, expected) ==
    /\ Len(observed) = Len(expected)
    /\ \E p \in [1..Len(expected) -> 1..Len(expected)] :
          /\ \A i, j \in 1..Len(expected) : p[i] = p[j] => i = j
          /\ \A i \in 1..Len(expected) : SameCall(observed[i], expected[p[i]])
    /\ \E i \in 1..Len(expected) : ~SameCall(observed[i], expected[i])

\* C2: when the observed sequence holds the same calls as the expected one
\* in swapped order, acc_n_toolcalls < n_toolcalls and the query is not
\* counted as accurate.
C2_SwappedIsNotAccurate ==
    (cmp_pc = "done" /\ IsReordering(CmpObserved, CmpExpected))
    => /\ cmp_result.acc_n_toolcalls < cmp_result.n_toolcalls
       /\ cmp_accurate = 0

C2_Witness ==
    /\ cmp_pc = "done"
    /\ CmpExpected = ExampleSequence
    /\ CmpObserved = <<SmilesToAtoms("O"), NameToSmiles("water")>>
    /\ cmp_result.acc_n_toolcalls = 0
    /\ cmp_accurate = 0

\* the positions at which observed and expected hold the same call
MatchingPositions(observed, expected) ==
    {i \in 1..Len(expected) :
        i <= Len(observed) /\ SameCall(observed[i], expected[i])}

\* C3: matching is by index alignment: n_toolcalls is the length of the
\* expected sequence and acc_n_toolcalls the number of indices at which the
\* observed call has the expected name and deep-equal arguments (key order
\* ignored; a missing, extra or differing key or value is a miss).
C3_IndexAlignment ==
    cmp_pc = "done"
    => /\ cmp_result.n_toolcalls = Len(CmpExpected)
       /\ cmp_result.acc_n_toolcalls =
             Cardinality(MatchingPositions(CmpObserved, CmpExpected))
       /\ \A i \in 1..Len(CmpExpected) :
             cmp_result.details[i] <=>
                 i \in MatchingPositions(CmpObserved, CmpExpected)

\* position 1 matches with its keys in the other order, position 2 misses
\* for a missing key
C3_Witness ==
    /\ cmp_pc = "done"
    /\ CmpExpected =
          << SaveFile(<< <<"atomsdata", "H2O">>, <<"fname", "water.xyz">> >>),
             SaveFile(<< <<"atomsdata", "H2O">>, <<"fname", "water.xyz">> >>) >>
    /\ CmpObserved =
          << SaveFile(<< <<"fname", "water.xyz">>, <<"atomsdata", "H2O">> >>),
             SaveFile(<< <<"fname", "water.xyz">> >>) >>
    /\ cmp_result.n_toolcalls = 2
    /\ cmp_result.acc_n_toolcalls = 1

\* the expected positions at which observed holds a malformed call or none
BadPositions(observed, expected) ==
    {i \in 1..Len(expected) :
        i > Len(observed) \/ observed[i].kind = "malformed"}

EvalObserved(k) == llm_tool_calls[k].tool_calls
EvalExpected(k) == list_of_queries[k].answer.tool_calls

\* C4: a malformed observed call, or an expected position with no observed
\* call, is scored inaccurate at that position and never aborts: the result
\* with n_toolcalls and acc_n_toolcalls is recorded and evaluate_model goes
\* on to the next query.
C4_BadCallIsScoredNotFatal ==
    [][ (/\ eval_pc = "evaluate"
         /\ eval_idx < Len(llm_tool_calls)
         /\ BadPositions(EvalObserved(eval_idx + 1), EvalExpected(eval_idx + 1)) # {})
        => /\ eval_pc' = "evaluate"
           /\ eval_idx' = eval_idx + 1
           /\ LET bad == BadPositions(EvalObserved(eval_idx + 1),
                                      EvalExpected(eval_idx + 1))
                  r == eval_details'[list_of_queries[eval_idx + 1].query]
              IN  /\ r.n_toolcalls = Len(EvalExpected(eval_idx + 1))
                  /\ r.acc_n_toolcalls <= r.n_toolcalls - Cardinality(bad)
                  /\ \A i \in bad : ~r.details[i]
                  /\ accurate_tool_call' = accurate_tool_call ]_vars

\* a query with a malformed call and one with a missing call were both
\* scored, and the loop reached the end
C4_Witness ==
    /\ eval_pc = "done"
    /\ Len(llm_tool_calls) = 2
    /\ EvalExpected(1) = ExampleSequence
    /\ EvalObserved(1) = <<NameToSmiles("water"), MalformedCall>>
    /\ EvalExpected(2) = ExampleSequence
    /\ EvalObserved(2) = <<NameToSmiles("water")>>
    /\ list_of_queries[1].query # list_of_queries[2].query
    /\ \A k \in 1..2 :
          eval_details[list_of_queries[k].query].acc_n_toolcalls = 1
    /\ accurate_tool_call = 0

\* C5: for an empty expected sequence n_toolcalls = 0 and the query is
\* counted as accurate whatever the observed sequence is.
C5_EmptyExpectedIsAccurate ==
    (cmp_pc = "done" /\ CmpExpected = <<>>)
    => /\ cmp_result.n_toolcalls = 0
       /\ cmp_result.acc_n_toolcalls = cmp_result.n_toolcalls
       /\ cmp_accurate = 1

C5_Witness ==
    /\ cmp_pc = "done"
    /\ CmpExpected = <<>>
    /\ CmpObserved = <<NameToSmiles("water"), MalformedCall>>
    /\ cmp_result.n_toolcalls = 0
    /\ cmp_accurate = 1

(***************************************************************************)
(* Properties of the batch loops.                                          *)
(***************************************************************************)
\* C6: in the Exp14 loop the llm_workflow stored under a reaction comes
\* from the agent state of that reaction's own run; when cca.run raised for
\* the reaction, its entry holds nothing derived from the state of another
\* reaction.
C6_EntryFromOwnRun ==
    llm_script = "Exp14"
    => \A name \in DOMAIN llm_combined :
          LET thread == llm_combined[name].llm_workflow.thread_id
          IN  /\ thread < llm_idx
              /\ llm_items[thread + 1] = name
              /\ \A later \in (thread + 1)..(llm_idx - 1) :
                    llm_items[later + 1] # name

\* C7: in the Exp3, Exp8 and Exp14 loops a failure of the agent run for one
\* item does not stop the batch: main is not left by an exception, and the
\* file written at the end has an entry for every item of dataset[:n].
C7_RunFailureContained ==
    /\ llm_pc # "raised"
    /\ llm_pc = "written"
          => DOMAIN llm_file = {llm_items[k] : k \in DOMAIN llm_items}

\* the workflow a manual script recorded for an entry is an error string
IsErrorString(v) ==
    /\ "type" \in DOMAIN v
    /\ v.type = "str"
    /\ v.prefix \in {"ERROR - ", "Error message: "}
RecordsError(entry) ==
    \/ IsErrorString(entry.manual_workflow)
    \/ /\ "result" \in DOMAIN entry.manual_workflow
       /\ "value" \in DOMAIN entry.manual_workflow.result
       /\ IsErrorString(entry.manual_workflow.result.value)

\* the key of an item of the dataset, and whether a tool fails on the item
ManualKey(item) ==
    IF man_script = "Exp6" THEN item.name ELSE item.reaction_name
ManualToolFails(item) ==
    IF man_script = "Exp6"
    THEN FailingTool(item.name) # "none"
    ELSE \E k \in DOMAIN (item.reactants \o item.products) :
            FailingTool((item.reactants \o item.products)[k].name) \in ThermoTools

\* C8: in Exp6 main and Exp12 main, every processed item has an entry in
\* the output, and the entry of an item on which a chemistry tool failed
\* records the string "ERROR - <message>" or "Error message: <message>".
C8_ToolFailureRecorded ==
    man_pc = "written"
    => \A k \in DOMAIN man_dataset :
          /\ ManualKey(man_dataset[k]) \in DOMAIN man_file
          /\ ManualToolFails(man_dataset[k])
                => RecordsError(man_file[ManualKey(man_dataset[k])])

\* C9: a failing git command (non-zero exit, or git not runnable at all)
\* degrades to git_commit = "unknown": the entry is written with its
\* metadata and the batch goes on.
C9_GitFailureDegrades ==
    man_git # "ok"
    => /\ man_pc # "raised"
       /\ \A k \in DOMAIN man_combined :
             /\ "metadata" \in DOMAIN man_combined[k]
             /\ man_combined[k].metadata.git_commit = "unknown"

\* C10: every entry of every output file has exactly two parts, the
\* workflow (manual_workflow or llm_workflow) and metadata, on the success
\* path and on the per-item error path.
C10_EntryHasWorkflowAndMetadata ==
    /\ llm_pc = "written"
          => \A k \in DOMAIN llm_file :
                DOMAIN llm_file[k] = {"llm_workflow", "metadata"}
    /\ man_pc = "written"
          => \A k \in DOMAIN man_file :
                DOMAIN man_file[k] = {"manual_workflow", "metadata"}

\* C11: Exp12 main reads its dataset from the file named by --reaction_fp,
\* processes the first --n_reactions reactions of it, and writes the
\* combined result object to the file named by --output_fp: whenever the
\* file named by --reaction_fp exists, main gets past the load with the
\* first n reactions of that file (it raises only later, out of the git
\* command), and the file it writes holds the combined object.
C11_ReadsReactionFp ==
    (man_script = "Exp12" /\ man_pc # "start")
    => /\ man_args.reaction_fp \in DOMAIN man_files
             => /\ man_dataset = Take(man_files[man_args.reaction_fp],
                                      man_args.n_reactions)
                /\ man_pc = "raised" => man_combined # EmptyDict
       /\ man_pc = "written"
             => /\ man_args.output_fp \in DOMAIN man_files
                /\ man_files[man_args.output_fp] = man_combined

(***************************************************************************)
(* Exp6 run_manual_workflow.get_smiles_from_molecule_name, lines 14-36.    *)
(***************************************************************************)
\* the value the call evaluates to: the try branch returns the workflow
\* (line 33); the except branch fills the workflow and falls off the end of
\* the function (lines 34-36), so the call evaluates to None
get_smiles_from_molecule_name(name) ==
    IF FailingTool(name) = "molecule_name_to_smiles"
    THEN None
    ELSE [tool_calls |-> <<NameToSmiles(name)>>, result |-> SmilesOf(name)]

(***************************************************************************)
(* Exp12 find_error.py, lines 4-9.  The file is the sequence of its        *)
(* <<key, entry>> pairs in file order, which is the order json.load keeps  *)
(* and the for loop follows.                                               *)
(***************************************************************************)
\* "ERROR" in value, for a value that is a string
ContainsERROR(value) == value.prefix = "ERROR - "

\* lines 7-9 from the k-th item on: what was printed, and whether the
\* script ended in an exception; `in` on a number raises TypeError
RECURSIVE find_error(_, _, _)
find_error(data, k, printed) ==
    IF k > Len(data)
    THEN [raised |-> FALSE, printed |-> printed]
    ELSE LET item == data[k][1]
             value == data[k][2].manual_workflow.result.value
         IN  IF value.type = "number"
             THEN [raised |-> TRUE, printed |-> printed]
             ELSE find_error(data, k + 1,
                             IF ContainsERROR(value)
                             THEN Append(printed, item) ELSE printed)

(***************************************************************************)
(* SpecFunctions: one of the functions applied to one input.               *)
(***************************************************************************)
otherThanFunctions == <<cmpVars, evalVars, llmVars, manVars, pubVars>>

InitGetSmiles ==
    /\ fn_name = "get_smiles_from_molecule_name"
    /\ fn_input \in MoleculeNames

\* the species a reaction is made of: two molecules every tool handles,
\* with both coefficients, one that molecule_name_to_smiles rejects and one
\* on which run_ase fails
SpeciesPool ==
    {Species(name, coefficient) :
        name \in {"water", "hydrogen"}, coefficient \in {1, 2}}
    \cup {Species("unknown", 1), Species("unstable", 1)}

\* Exp12 main lines 102-107: the arguments of the call
InitGetManual ==
    /\ fn_name = "get_manual_workflow_result"
    /\ \E reactants \in SeqsUpTo(SpeciesPool, MaxSide),
          products \in SeqsUpTo(SpeciesPool, MaxSide) :
          fn_input = [reaction |-> Reaction("reaction", reactants, products),
                      prop |-> "enthalpy",
                      temperature |-> 400,
                      calculator |-> [calculator_type |-> "TBLite",
                                      method |-> "GFN2-xTB"]]

\* the file Exp12 main writes for a dataset of reactions with distinct
\* names (run_manual_workflow.py lines 101-124)
Exp12OutputFile(reactions) ==
    [k \in DOMAIN reactions |->
        << reactions[k].reaction_name,
           [manual_workflow |->
                get_manual_workflow_result(
                    reactions[k], "enthalpy", 400,
                    [calculator_type |-> "TBLite", method |-> "GFN2-xTB"]),
            metadata |-> [timestamp |-> "now", git_commit |-> "commit"]] >>]

\* sys.argv[1] names an output file of Exp12 run_manual_workflow
InitFindError ==
    /\ fn_name = "find_error"
    /\ \E reactions \in SeqsUpTo(ReactionPool, MaxItems) :
          /\ \A i, j \in DOMAIN reactions : i # j => reactions[i] # reactions[j]
          /\ fn_input = Exp12OutputFile(reactions)

InitFunctions ==
    /\ \/ InitGetSmiles
       \/ InitGetManual
       \/ InitFindError
    /\ fn_output = None
    /\ fn_pc = "start"
    /\ IdleCmp /\ IdleEval /\ IdleLLM /\ IdleManual /\ IdlePubchem

CallGetSmiles ==
    /\ fn_pc = "start"
    /\ fn_name = "get_smiles_from_molecule_name"
    /\ fn_output' = get_smiles_from_molecule_name(fn_input)
    /\ fn_pc' = "done"
    /\ UNCHANGED <<fn_name, fn_input, otherThanFunctions>>

CallGetManual ==
    /\ fn_pc = "start"
    /\ fn_name = "get_manual_workflow_result"
    /\ fn_output' = get_manual_workflow_result(
                         fn_input.reaction, fn_input.prop,
                         fn_input.temperature, fn_input.calculator)
    /\ fn_pc' = "done"
    /\ UNCHANGED <<fn_name, fn_input, otherThanFunctions>>

RunFindError ==
    /\ fn_pc = "start"
    /\ fn_name = "find_error"
    /\ fn_output' = find_error(fn_input, 1, <<>>)
    /\ fn_pc' = "done"
    /\ UNCHANGED <<fn_name, fn_input, otherThanFunctions>>

NextFunctions ==
    \/ CallGetSmiles
    \/ CallGetManual
    \/ RunFindError

SpecFunctions == InitFunctions /\ [][NextFunctions]_vars

\* C12: get_smiles_from_molecule_name(name) returns a workflow dict on every
\* path and never None: on success the one logged call
\* molecule_name_to_smiles{name} with the SMILES as result, on failure the
\* same logged call with a result string that starts with "ERROR - ".
C12_AlwaysReturnsWorkflow ==
    (fn_name = "get_smiles_from_molecule_name" /\ fn_pc = "done")
    => /\ fn_output # None
       /\ fn_output.tool_calls =
             <<Call("molecule_name_to_smiles", << <<"name", fn_input>> >>)>>
       /\ fn_output.result =
             IF FailingTool(fn_input) = "molecule_name_to_smiles"
             THEN Str("ERROR - ", ToolError("molecule_name_to_smiles", fn_input))
             ELSE SmilesOf(fn_input)

(***************************************************************************)
(* SpecPubchem: get_random_molecule_names, get_molecule_from_pubchempy.py  *)
(* lines 11-61, with the default max_natoms and min_natoms.  PubChem and   *)
(* the two tools are a table: for each CID of cid_range, whether the       *)
(* lookup or a tool raises, whether the compound has no name, or how many  *)
(* atoms it has.  random.randint is a choice among the CIDs of cid_range.  *)
(***************************************************************************)
otherThanPubchem == <<cmpVars, evalVars, llmVars, manVars, fnVars>>

max_natoms == 20
min_natoms == 6

\* what a CID holds: a compound whose lookup or tools raise, one without a
\* name, or a molecule with its name (two CIDs may hold the same name) and
\* an atom count on either side of each bound
Compounds ==
    {[kind |-> "raises", name |-> "", natoms |-> 0],
     [kind |-> "no name", name |-> "", natoms |-> 0],
     [kind |-> "molecule", name |-> "compound alpha", natoms |-> max_natoms - 1],
     [kind |-> "molecule", name |-> "compound beta", natoms |-> max_natoms - 1],
     [kind |-> "molecule", name |-> "compound alpha", natoms |-> min_natoms],
     [kind |-> "molecule", name |-> "compound alpha", natoms |-> max_natoms]}

\* line 36: compound.iupac_name or compound.synonyms[0], as the record has it
NameOf(compound) == compound.name

\* line 40: molecule_name_to_smiles.invoke({"name": name})
SmilesOfName(name) == <<"smiles of", name>>

\* line 43, widened to include both bounds
QualifiesInclusive(natoms) == natoms <= max_natoms /\ natoms >= min_natoms

\* line 43
Qualifies(natoms) == natoms < max_natoms /\ natoms > min_natoms

\* lines 11, 23-26: cid_range = (lo, hi) with lo <= hi
InitPubchem ==
    /\ pub_n \in 0..MaxN
    /\ \E lo \in 0..MaxCid, hi \in 0..MaxCid :
          /\ lo <= hi
          /\ pub_db \in [lo..hi -> Compounds]
    /\ pub_output = <<>>
    /\ pub_tried = {}
    /\ pub_count = 0
    /\ pub_lookups = <<>>
    /\ pub_pc = "loop"
    /\ IdleCmp /\ IdleEval /\ IdleLLM /\ IdleManual /\ IdleFunctions

\* lines 28-59: one pass of the while body
PubchemIteration ==
    /\ pub_pc = "loop"
    /\ Len(pub_output) < pub_n
    /\ \E cid \in DOMAIN pub_db :              \* random.randint(*cid_range)
          IF cid \in pub_tried
          THEN UNCHANGED <<pub_tried, pub_lookups, pub_output, pub_count>>
          ELSE /\ pub_tried' = pub_tried \cup {cid}
               /\ pub_lookups' = Append(pub_lookups, cid)
               /\ IF /\ pub_db[cid].kind = "molecule"
                     /\ Qualifies(pub_db[cid].natoms)
                  THEN /\ pub_output' =
                             Append(pub_output,
                                    [index |-> pub_count,
                                     name |-> NameOf(pub_db[cid]),
                                     number_of_atoms |-> pub_db[cid].natoms,
                                     smiles |-> SmilesOfName(NameOf(pub_db[cid]))])
                       /\ pub_count' = pub_count + 1
                  ELSE UNCHANGED <<pub_output, pub_count>>
    /\ UNCHANGED <<pub_n, pub_db, pub_pc, otherThanPubchem>>

\* lines 28, 61: the loop condition fails and output is returned
PubchemReturn ==
    /\ pub_pc = "loop"
    /\ Len(pub_output) >= pub_n
    /\ pub_pc' = "returned"
    /\ UNCHANGED <<pub_n, pub_db, pub_output, pub_tried, pub_count,
                   pub_lookups, otherThanPubchem>>

NextPubchem ==
    \/ PubchemIteration
    \/ PubchemReturn

SpecPubchem == InitPubchem /\ [][NextPubchem]_vars

\* the CID holds a molecule whose atom count is strictly within the bounds
IsQualifyingCid(cid) ==
    /\ pub_db[cid].kind = "molecule"
    /\ pub_db[cid].natoms > min_natoms
    /\ pub_db[cid].natoms < max_natoms

\* C13: whenever get_random_molecule_names returns, the list has exactly n
\* entries, the entry at position k (from 0) has index k, every entry has
\* min_natoms < number_of_atoms < max_natoms, and no CID was looked up more
\* than once, so the entries come from pairwise distinct CIDs: the k-th
\* entry is the k-th qualifying compound looked up.
C13_ReturnedListIsWellFormed ==
    pub_pc = "returned"
    => /\ Len(pub_output) = pub_n
       /\ \A k \in DOMAIN pub_output :
             /\ pub_output[k].index = k - 1
             /\ pub_output[k].number_of_atoms > min_natoms
             /\ pub_output[k].number_of_atoms < max_natoms
       /\ \A i, j \in DOMAIN pub_lookups :
             i # j => pub_lookups[i] # pub_lookups[j]
       /\ LET sources == SelectSeq(pub_lookups, IsQualifyingCid)
          IN  /\ Len(sources) = Len(pub_output)
              /\ \A k \in DOMAIN pub_output :
                    pub_output[k].name = pub_db[sources[k]].name

\* a run that returned two entries after looking up a compound that does
\* not qualify
C13_Witness ==
    /\ pub_pc = "returned"
    /\ pub_n = 2
    /\ Len(pub_output) = 2
    /\ Len(pub_lookups) > 2

\* SpecPubchemFair: the process keeps running, and a pass that changes the
\* state (a draw of a CID not tried yet) is taken eventually as long as one
\* is possible; a draw of a CID already tried changes nothing
SpecPubchemFair ==
    /\ InitPubchem
    /\ [][NextPubchem]_vars
    /\ WF_vars(PubchemIteration)
    /\ WF_vars(PubchemReturn)

\* C14: get_random_molecule_names eventually returns, for every n >= 0 and
\* every cid_range, also when lookups or tools raise, compounds have no
\* name, or fewer than n compounds of cid_range have an atom count within
\* the bounds.
C14_EventuallyReturns == <>(pub_pc = "returned")

(***************************************************************************)
(* Properties of get_manual_workflow_result.                               *)
(***************************************************************************)
\* the species in the order they are processed: reactants, then products
AllSpecies(reaction) == reaction.reactants \o reaction.products

ToolFailsOn(species) ==
    FailingTool(species.name)
        \in {"molecule_name_to_smiles", "smiles_to_atomsdata", "run_ase"}

\* the sum of coefficient * property over the first k species of a side
RECURSIVE WeightedSum(_, _)
WeightedSum(species_list, k) ==
    IF k = 0 THEN 0
    ELSE WeightedSum(species_list, k - 1)
           + species_list[k].coefficient * EnthalpyOf(species_list[k].name)

\* entries 3s-2, 3s-1 and 3s of the log are the triple of species s
LogsSpeciesAt(log, s, species, input) ==
    /\ log[3 * s - 2] =
          Call("molecule_name_to_smiles", << <<"name", species.name>> >>)
    /\ log[3 * s - 1] =
          Call("smiles_to_atomsdata", << <<"smiles", SmilesOf(species.name)>> >>)
    /\ log[3 * s] =
          Call("run_ase",
               << <<"params",
                    [atomsdata |-> AtomsDataOf(SmilesOf(species.name)),
                     driver |-> "thermo",
                     calculator |-> input.calculator,
                     temperature |-> input.temperature]>> >>)

ManualResultDone == fn_name = "get_manual_workflow_result" /\ fn_pc = "done"

\* C15: when no tool fails for a reaction with R reactants and P products,
\* get_manual_workflow_result returns a workflow whose tool_calls has
\* exactly 3*(R+P) entries, the reactants in dataset order and then the
\* products in dataset order, each species the triple
\* molecule_name_to_smiles, smiles_to_atomsdata, run_ase; and result.value
\* is the sum over the products of coefficient*property minus the sum over
\* the reactants.
C15_SuccessLogAndValue ==
    (ManualResultDone /\ \A s \in DOMAIN AllSpecies(fn_input.reaction) :
                            ~ToolFailsOn(AllSpecies(fn_input.reaction)[s]))
    => LET reaction == fn_input.reaction
           all == AllSpecies(reaction)
           log == fn_output.tool_calls
       IN  /\ Len(log) = 3 * (Len(reaction.reactants) + Len(reaction.products))
           /\ \A s \in DOMAIN all : LogsSpeciesAt(log, s, all[s], fn_input)
           /\ fn_output.result.value =
                 Num(WeightedSum(reaction.products, Len(reaction.products))
                       - WeightedSum(reaction.reactants, Len(reaction.reactants)))

\* two reactants and a product, with coefficients 2 and 1, all processed
C15_Witness ==
    /\ ManualResultDone
    /\ fn_input.reaction.reactants = <<Species("hydrogen", 2), Species("water", 1)>>
    /\ fn_input.reaction.products = <<Species("water", 2)>>
    /\ Len(fn_output.tool_calls) = 9
    /\ fn_output.result.value = Num(-5)

\* C16: get_manual_workflow_result never raises: when a tool fails on the
\* k-th species (counted over the reactants, then the products) it returns
\* a workflow whose tool_calls holds exactly the 3*(k-1) entries of the
\* species processed before it, none of the failing species, whose
\* result.value is "ERROR - <message>" and whose result.property and
\* result.unit are as initialised.
C16_FailureKeepsPrefix ==
    ManualResultDone
    => /\ DOMAIN fn_output = {"tool_calls", "result"}
       /\ LET all == AllSpecies(fn_input.reaction)
              failing == {s \in DOMAIN all : ToolFailsOn(all[s])}
              log == fn_output.tool_calls
          IN  failing # {}
              => LET k == CHOOSE s \in failing : \A t \in failing : s <= t
                 IN  /\ Len(log) = 3 * (k - 1)
                     /\ \A s \in 1..(k - 1) :
                           LogsSpeciesAt(log, s, all[s], fn_input)
                     /\ fn_output.result.value =
                           Str("ERROR - ",
                               <<FailingTool(all[k].name), all[k].name>>)
                     /\ fn_output.result.property = fn_input.prop
                     /\ fn_output.result.unit = "eV"

\* run_ase fails on the first product after both reactants were processed
C16_Witness ==
    /\ ManualResultDone
    /\ Len(fn_input.reaction.reactants) = 2
    /\ \A s \in DOMAIN fn_input.reaction.reactants :
          ~ToolFailsOn(fn_input.reaction.reactants[s])
    /\ fn_input.reaction.products = <<Species("unstable", 1), Species("water", 1)>>
    /\ Len(fn_output.tool_calls) = 6
    /\ fn_output.result.value = Str("ERROR - ", <<"run_ase", "unstable">>)

\* the keys of the entries whose value is an error string, in file order
RECURSIVE ErrorKeys(_, _)
ErrorKeys(file, k) ==
    IF k = 0 THEN <<>>
    ELSE LET before == ErrorKeys(file, k - 1)
         IN  IF IsErrorString(file[k][2].manual_workflow.result.value)
             THEN Append(before, file[k][1]) ELSE before

\* C17: on any output file of Exp12 run_manual_workflow, whose values are
\* computed numbers or "ERROR - <message>" strings, find_error.py runs to
\* completion and prints exactly the reaction names whose value is an error
\* string, in file order, and nothing for the computed ones.
C17_PrintsErrorNames ==
    (fn_name = "find_error" /\ fn_pc = "done")
    => /\ ~fn_output.raised
       /\ fn_output.printed = ErrorKeys(fn_input, Len(fn_input))

(***************************************************************************)
(* Properties of the accuracy of evaluate_model.                           *)
(***************************************************************************)
\* the queries whose comparison has acc_n_toolcalls = n_toolcalls
AccurateQueries ==
    {k \in DOMAIN llm_tool_calls :
        LET r == multi_function_checker_with_order(EvalObserved(k), EvalExpected(k))
        IN  r.acc_n_toolcalls = r.n_toolcalls}

\* C18: for any list of queries, the empty list included, evaluate_model
\* returns an accuracy in [0, 100] equal to 100 * (number of queries whose
\* comparison has acc_n_toolcalls = n_toolcalls) / (number of queries),
\* after one comparison per query in input order: once every query has
\* been run, nothing raises, and the accuracy returned is that fraction.
C18_AccuracyOfAnyList ==
    /\ (eval_pc = "raised" => Len(llm_tool_calls) < Len(list_of_queries))
    /\ eval_pc = "done"
          => /\ eval_idx = Len(list_of_queries)
             /\ accuracy.den = Len(list_of_queries)
             /\ accuracy.den > 0
             /\ accuracy.num = 100 * Cardinality(AccurateQueries)
             /\ 0 <= accuracy.num /\ accuracy.num <= 100 * accuracy.den

=============================================================================
